---------------------------- MODULE Spec2Model ----------------------------
(***************************************************************************)
(* A model of the feed-forward network engine of nathanleary/neural-net:   *)
(* network construction (neural.go), the forward pass and Predict          *)
(* (neural.go, neuron/synapse), the weight snapshot / copy-in pair         *)
(* (persist.go), the noise-filtering search and the concurrent batch       *)
(* trainer (training/batchTrainer.go).                                     *)
(*                                                                         *)
(* float32 values are modelled by the integers they hold.  Every integer   *)
(* of magnitude <= 2^24 is a float32 and sums and products of such values  *)
(* that stay in that range are exact in float32; where a result can leave  *)
(* the range (the perturbation arithmetic of FilterNoise) the rounding of  *)
(* float32 is applied by F32.  Go indexes from 0, the sequences here from  *)
(* 1; flat solver indices are kept 0-based as in the code.                 *)
(***************************************************************************)
EXTENDS Integers, Sequences, FiniteSets, TLC

(***************************************************************************)
(* Bounds of the model.                                                    *)
(***************************************************************************)
MaxInputs == 2
MaxLayers == 2
MaxWidth == 2
MaxInputVal == 1
MaxWrites == 2
MaxTune == 3

(***************************************************************************)
(* Program constants: activation.go, second half of the file.              *)
(***************************************************************************)
ModeDefault == 0
ModeMultiClass == 1
ModeRegression == 2
ModeBinary == 3
ModeMultiLabel == 4

ActivationNone == 0
ActivationSigmoid == 1
ActivationTanh == 2
ActivationReLU == 3
ActivationLinear == 4
ActivationSoftmax == 5
ActivationCustom == 9
\* Two tags of the later activation file (part_002 lines 106, 108), both
\* mapped to RootPow{} by its GetActivation (lines 65-68).
ActivationRootPow == 14
ActivationDoublePow == 15

\* LossType values (named, the declaring file is not part of the sources).
LossTypes == {"LossNone", "LossCrossEntropy", "LossBinaryCrossEntropy", "LossMeanSquared"}

Abs(x) == IF x < 0 THEN -x ELSE x

RECURSIVE SumSeq(_)
SumSeq(s) == IF s = <<>> THEN 0 ELSE Head(s) + SumSeq(Tail(s))

(***************************************************************************)
(* OutputActivation: the activation tag of the output layer for a mode.    *)
(***************************************************************************)
OutputActivation(c) ==
    CASE c = ModeMultiClass -> ActivationSoftmax
      [] c = ModeRegression -> ActivationLinear
      [] c = ModeBinary \/ c = ModeMultiLabel -> ActivationSigmoid
      [] OTHER -> ActivationNone

(***************************************************************************)
(* NewNeural, lines 52-61: the loss is defaulted from the mode only when   *)
(* it is LossNone.                                                         *)
(***************************************************************************)
\* (mutant) the default is applied whatever c.Loss holds.
DefaultLossAlways(c) ==
    CASE c.Mode = ModeMultiClass \/ c.Mode = ModeMultiLabel -> "LossCrossEntropy"
      [] c.Mode = ModeBinary -> "LossBinaryCrossEntropy"
      [] OTHER -> "LossMeanSquared"

DefaultLoss(c) ==
    IF c.Loss = "LossNone"
    THEN CASE c.Mode = ModeMultiClass \/ c.Mode = ModeMultiLabel -> "LossCrossEntropy"
           [] c.Mode = ModeBinary -> "LossBinaryCrossEntropy"
           [] OTHER -> "LossMeanSquared"
    ELSE c.Loss

(***************************************************************************)
(* initializeLayers, lines 94-103: the activation of layer i (1-based      *)
(* here).  ReadsActivation says whether c.Activation[i] is indexed; an     *)
(* index past the end of the slice panics.                                 *)
(***************************************************************************)
\* (mutant) c.Activation[i] is read before the mode is looked at.
ReadsActivationEager(c, i) == TRUE

ReadsActivation(c, i) == ~(i = Len(c.Layout) /\ c.Mode # ModeDefault)

LayerAct(c, i) ==
    IF i = Len(c.Layout) /\ c.Mode # ModeDefault
    THEN OutputActivation(c.Mode)
    ELSE c.Activation[i]

InitLayersPanics(c) ==
    \E i \in 1..Len(c.Layout) : ReadsActivation(c, i) /\ i > Len(c.Activation)

LayerActs(c) == [i \in 1..Len(c.Layout) |-> LayerAct(c, i)]

(***************************************************************************)
(* Topology.  Layer l (1-based) has c.Layout[l] neurons; each neuron's In  *)
(* holds one synapse per input (layer 1, initializeLayers lines 109-114)   *)
(* or per neuron of the previous layer (Connect), followed by one bias     *)
(* synapse appended by ApplyBias (NewNeural lines 66-74: every layer when  *)
(* c.Bias, except the last one in regression mode).                        *)
(***************************************************************************)
NumLayers(c) == Len(c.Layout)

HasBias(c, l) == c.Bias /\ ~(c.Mode = ModeRegression /\ l = NumLayers(c))

NumFed(c, l) == IF l = 1 THEN c.Inputs ELSE c.Layout[l - 1]

NumIn(c, l) == NumFed(c, l) + (IF HasBias(c, l) THEN 1 ELSE 0)

\* The synapses of a network, as (layer, neuron, index in neuron.In).
Synapses(c) ==
    UNION {{<<l, j, k>> : j \in 1..c.Layout[l], k \in 1..NumIn(c, l)} : l \in 1..NumLayers(c)}

\* Neural.NumWeights: the sum of len(neuron.In) over all neurons.
RECURSIVE NumWeightsUpTo(_, _)
NumWeightsUpTo(c, l) ==
    IF l = 0 THEN 0 ELSE NumWeightsUpTo(c, l - 1) + c.Layout[l] * NumIn(c, l)

NumWeights(c) == NumWeightsUpTo(c, NumLayers(c))

\* The [layer][neuron][synapse] structure holding f[<<l, j, k>>] at each place.
Nested(c, f) ==
    [l \in 1..NumLayers(c) |-> [j \in 1..c.Layout[l] |-> [k \in 1..NumIn(c, l) |-> f[<<l, j, k>>]]]]

(***************************************************************************)
(* Storage.  Every float32 that holds a weight is a cell of the memory     *)
(* wt: the Weight field of a synapse of network id is the cell             *)
(* <<id, l, j, k>>, and the element [l][j][k] of the slices made by one    *)
(* call of Weights() is the cell <<"slice", l, j, k>>.  Network ids are    *)
(* "n" (the network the caller holds), "m" (a second network of the same   *)
(* Config) and "r1", "r2", ... (the batch trainer's replicas).             *)
(***************************************************************************)
WCell(id, l, j, k) == <<id, l, j, k>>

Cells(c, ids) == {WCell(id, s[1], s[2], s[3]) : id \in ids, s \in Synapses(c)}

(***************************************************************************)
(* NewNeural, lines 63-90: the network object.  Transient state (synapse   *)
(* In/Out, neuron Value) is zero, Significance is all 1 and Shift all 0.   *)
(* The Config is held by reference: net.Config is the variable cfg.        *)
(***************************************************************************)
NewNet(c) ==
    [ Act          |-> LayerActs(c),
      Shift        |-> [i \in 1..c.Inputs |-> 0],
      Significance |-> [i \in 1..c.Inputs |-> 1],
      SIn          |-> Nested(c, [s \in Synapses(c) |-> 0]),
      SOut         |-> Nested(c, [s \in Synapses(c) |-> 0]),
      Value        |-> [l \in 1..NumLayers(c) |-> [j \in 1..c.Layout[l] |-> 0]] ]

(***************************************************************************)
(* Activations.  GetActivation maps a tag to its function pair; the tags   *)
(* whose F is exact on integers are modelled: ReLU, Linear, the softmax    *)
(* marker (Linear{}), Custom with no hook installed (F returns x) and      *)
(* every tag no case names (the final return Linear{}).                    *)
(***************************************************************************)
ExactTags == {ActivationNone, ActivationReLU, ActivationLinear, ActivationSoftmax, ActivationCustom}

ActF(tag, x, training) ==
    CASE tag = ActivationReLU -> IF x > 0 THEN x ELSE 0
      [] tag = ActivationLinear -> x
      [] tag = ActivationSoftmax -> x
      [] tag = ActivationCustom -> x
      [] tag = ActivationNone -> x
      [] tag \in {ActivationRootPow, ActivationDoublePow} /\ x >= 0 -> (x * x) + x

(***************************************************************************)
(* The forward pass.  w is the [layer][neuron][synapse] structure of the   *)
(* network's current weights.                                              *)
(*   Forward lines 144-152: first-layer synapse i is fired with            *)
(*     (input[i] + Shift[i]) * Significance[i];                            *)
(*   fire lines 121-128: every bias synapse is fired with 1;               *)
(*   Neuron.fire: Value = Activate(sum of In[k].Out), then every synapse   *)
(*     of neuron.Out (In[j] of each neuron of the next layer) is fired     *)
(*     with Value;                                                         *)
(*   Synapse.fire: In = value, Out = In * Weight.                          *)
(***************************************************************************)
FirstIn(net, input, k) == (input[k] + net.Shift[k]) * net.Significance[k]

\* The value synapse k of a neuron of layer l is fired with, vals being the
\* neuron values of the layers before l.
SynIn(c, net, input, vals, l, k) ==
    IF k > NumFed(c, l) THEN 1
    ELSE IF l = 1 THEN FirstIn(net, input, k)
    ELSE vals[l - 1][k]

RECURSIVE DotIn(_, _, _, _, _, _, _)
DotIn(c, net, w, input, vals, l, jk) ==
    IF jk[2] = 0 THEN 0
    ELSE DotIn(c, net, w, input, vals, l, <<jk[1], jk[2] - 1>>)
         + SynIn(c, net, input, vals, l, jk[2]) * w[l][jk[1]][jk[2]]

\* Neuron values of layers 1..l.
RECURSIVE LayerValues(_, _, _, _, _, _)
LayerValues(c, net, w, input, training, l) ==
    IF l = 0 THEN <<>>
    ELSE LET vals == LayerValues(c, net, w, input, training, l - 1) IN
         Append(vals, [j \in 1..c.Layout[l] |->
                         ActF(net.Act[l], DotIn(c, net, w, input, vals, l, <<j, NumIn(c, l)>>), training)])

\* (mutant) only a short input is rejected.
ForwardErrShort(c, input) == Len(input) < c.Inputs

\* Forward lines 140-142: the dimension check.
ForwardErr(c, input) == Len(input) # c.Inputs

\* (mutant) the pass folds Shift into the fired values and clears it.
ForwardClearsShift(c, net, w, input, training) ==
    IF ForwardErr(c, input) THEN net
    ELSE LET vals == LayerValues(c, net, w, input, training, NumLayers(c)) IN
         [net EXCEPT !.Value = vals, !.Shift = [i \in 1..c.Inputs |-> 0]]

\* The network after Forward(input, training): unchanged on error.
Forward(c, net, w, input, training) ==
    IF ForwardErr(c, input) THEN net
    ELSE LET vals == LayerValues(c, net, w, input, training, NumLayers(c)) IN
         [net EXCEPT !.Value = vals,
                     !.SIn = Nested(c, [s \in Synapses(c) |-> SynIn(c, net, input, vals, s[1], s[3])]),
                     !.SOut = Nested(c, [s \in Synapses(c) |-> SynIn(c, net, input, vals, s[1], s[3]) * w[s[1]][s[2]][s[3]]])]

\* (mutant) the softmax-marked output shifted by its first element.
PredictOutNormalized(c, net) ==
    LET v == net.Value[NumLayers(c)] IN
    IF net.Act[NumLayers(c)] = ActivationSoftmax
    THEN [i \in 1..Len(v) |-> v[i] - v[1]]
    ELSE v

\* (mutant) a new slice of zeros, as make leaves it.
PredictOutZeros(c, net) == [i \in 1..c.Layout[NumLayers(c)] |-> 0]

\* Predict lines 163-168: the output layer's neuron values, in order.
PredictOut(c, net) ==
    LET outLayer == net.Value[NumLayers(c)] IN
    [i \in 1..c.Layout[NumLayers(c)] |-> outLayer[i]]

(***************************************************************************)
(* Weights() and ApplyWeights (persist.go 16-39) on the memory of cells.   *)
(* Weights makes new slices (lines 28, 30, 32) and stores a copy of every  *)
(* in.Weight in them (line 34); ApplyWeights stores the value of           *)
(* weights[i][j][k] in the Weight of synapse In[k] (line 20).              *)
(***************************************************************************)
\* (mutant) the returned structure refers to the synapses' own Weight cells.
WeightsRefsAliased(c, id) == Nested(c, [s \in Synapses(c) |-> WCell(id, s[1], s[2], s[3])])

\* The cells of the structure Weights() returns: newly made slices.
WeightsRefs(c, id) == Nested(c, [s \in Synapses(c) |-> WCell("slice", s[1], s[2], s[3])])

\* The memory after Weights() of network id has filled the new slices.
WeightsMem(c, mem, id) ==
    [x \in DOMAIN mem |-> IF x[1] = "slice" THEN mem[WCell(id, x[2], x[3], x[4])] ELSE mem[x]]

\* (mutant) the last synapse of every neuron.In is left out.
ApplyWeightsButLast(c, mem, id, weights) ==
    [x \in DOMAIN mem |->
       IF x[1] = id /\ x[4] < NumIn(c, x[2]) THEN mem[weights[x[2]][x[3]][x[4]]] ELSE mem[x]]

\* The memory after ApplyWeights(weights) on network id.
ApplyWeights(c, mem, id, weights) ==
    [x \in DOMAIN mem |-> IF x[1] = id THEN mem[weights[x[2]][x[3]][x[4]]] ELSE mem[x]]

(***************************************************************************)
(* float32 arithmetic on integer values.  An integer of magnitude up to    *)
(* 2^24 is a float32; a larger one is rounded to the nearest multiple of   *)
(* its ulp (the power of two u with 2^23 * u <= |x| < 2^24 * u), ties to   *)
(* the even mantissa.                                                      *)
(***************************************************************************)
RECURSIVE Ulp(_, _)
Ulp(x, u) == IF x < (2 ^ 24) * u THEN u ELSE Ulp(x, 2 * u)

RoundTo(x, u) ==
    LET q == x \div u
        r == x % u IN
    IF 2 * r < u THEN q * u
    ELSE IF 2 * r > u THEN (q + 1) * u
    ELSE IF q % 2 = 0 THEN q * u ELSE (q + 1) * u

F32(x) == IF x < 0 THEN 0 - RoundTo(0 - x, Ulp(0 - x, 1)) ELSE RoundTo(x, Ulp(x, 1))

(***************************************************************************)
(* crossValidate(n, examples): the network predicts every example in       *)
(* order and the mean-squared loss of the predictions is returned.  The    *)
(* loss is kept as the sum of the squared errors: every loss compared      *)
(* here is over the same examples, so the common divisor is left out.      *)
(***************************************************************************)
RECURSIVE SqErr(_, _, _)
SqErr(out, ideal, j) ==
    IF j = 0 THEN 0
    ELSE SqErr(out, ideal, j - 1) + (out[j] - ideal[j]) * (out[j] - ideal[j])

\* [loss, net] after the first i examples.
RECURSIVE CrossValidate(_, _, _, _, _)
CrossValidate(c, net, w, examples, i) ==
    IF i = 0 THEN [loss |-> 0, net |-> net]
    ELSE LET prev == CrossValidate(c, net, w, examples, i - 1)
             after == Forward(c, prev.net, w, examples[i].Input, FALSE)
             out == PredictOut(c, after) IN
         [loss |-> prev.loss + SqErr(out, examples[i].Response, Len(out)), net |-> after]

(***************************************************************************)
(* FilterNoise (batchTrainer.go 73-121).  ra2 is twice the random factor   *)
(* ra (ra = random.Float32()*2 - 1 lies in [-1, 1)), rfHigh says whether   *)
(* the random rf is above 0.5, ri is the random input index (1-based).     *)
(***************************************************************************)
\* Lines 87-93: whether the Shift branch is taken.
ShiftBranch(Significance, Shift, rfHigh) ==
    IF Significance = 0 THEN TRUE
    ELSE IF Shift = 0 THEN FALSE
    ELSE rfHigh

\* Lines 98 and 110: the perturbation is reverted.
NoImprovement(acc, updAcc) == acc <= updAcc

\* (mutant) the perturbation is added to every element.
PerturbAll(v, ri, mag, ra2) == [i \in DOMAIN v |-> F32(v[i] + (mag * ra2) \div 2)]

\* The perturbed vector: v[ri] += mag * ra.
Perturb(v, ri, mag, ra2) == [v EXCEPT ![ri] = F32(@ + (mag * ra2) \div 2)]

\* The vector after the revert: v[ri] -= mag * ra.
Revert(v, ri, mag, ra2) == [v EXCEPT ![ri] = F32(@ - (mag * ra2) \div 2)]

\* (mutant) the search is never skipped.
NoMagnitudeNever(Significance, Shift) == FALSE

\* Line 78, if Shift != 0.0 || Significance != 0.0, negated: the body is
\* skipped and -1.0 is returned.
NoMagnitude(Significance, Shift) == Shift = 0 /\ Significance = 0

\* [ret, net, acc, updAcc]: the value returned and the network afterwards;
\* acc and updAcc are -1 when crossValidate was not called.
FilterNoise(c, net, w, examples, Significance, Shift, rnd) ==
    IF NoMagnitude(Significance, Shift)
    THEN [ret |-> 0 - 1, net |-> net, acc |-> 0 - 1, updAcc |-> 0 - 1]
    ELSE LET base == CrossValidate(c, net, w, examples, Len(examples))
             onShift == ShiftBranch(Significance, Shift, rnd.rfHigh)
             pert == IF onShift
                     THEN [base.net EXCEPT !.Shift = Perturb(@, rnd.ri, Shift, rnd.ra2)]
                     ELSE [base.net EXCEPT !.Significance =
                                              Perturb(@, rnd.ri, Significance, rnd.ra2)]
             upd == CrossValidate(c, pert, w, examples, Len(examples)) IN
         IF NoImprovement(base.loss, upd.loss)
         THEN [ret |-> base.loss, acc |-> base.loss, updAcc |-> upd.loss,
               net |-> IF onShift
                       THEN [upd.net EXCEPT !.Shift = Revert(@, rnd.ri, Shift, rnd.ra2)]
                       ELSE [upd.net EXCEPT !.Significance = Revert(@, rnd.ri, Significance, rnd.ra2)]]
         ELSE [ret |-> upd.loss, acc |-> base.loss, updAcc |-> upd.loss, net |-> upd.net]

(***************************************************************************)
(* State.                                                                  *)
(*   cfg   the Config object (shared by reference by every network)        *)
(*   nets  the network objects, by id                                      *)
(*   wt    the memory of weight cells                                      *)
(*   res   the outcome of the last call of the operation under study       *)
(*   cw    the [][][]float32 a caller holds (currentWeights): the cell      *)
(*         each element [l][j][k] is stored in, <<>> while there is none    *)
(*   nw    the number of direct weight writes made so far                   *)
(* and, while BatchTrainer.Train runs,                                      *)
(*   main  the position of Train itself: pc, the mini-batch number b, and   *)
(*         the loop index i of the loop it is in                            *)
(*   wk    the worker goroutines (lines 139-146): pc and the example held   *)
(*   red   the per-worker reduction goroutines (lines 175-188)              *)
(*   app   the per-layer apply goroutines of every update() call            *)
(*   tb    the trainer's shared memory: work channel, wait group, deltas,   *)
(*         partialDeltas, accumulatedDeltas, solver moments, the reduction  *)
(*         channel, and the channel and mutex of every update() call        *)
(***************************************************************************)
VARIABLES cfg, nets, wt, res, cw, nw, main, wk, red, app, tb

trainer == <<main, wk, red, app, tb>>

vars == <<cfg, nets, wt, res, cw, nw, trainer>>

\* No trainer is running.
NoTrainer == main = <<>> /\ wk = <<>> /\ red = <<>> /\ app = <<>> /\ tb = <<>>

\* The variables of the weight snapshot, where no snapshot is in use.
NoSnapshot == cw = <<>> /\ nw = 0

(***************************************************************************)
(* Construction.  Configs is the bounded set of Config values NewNeural    *)
(* is called with: any mode (5 is a mode no case of the switches names),   *)
(* any loss, a layout of 1..MaxLayers layers and k or k-1 activations.     *)
(***************************************************************************)
UnknownMode == ModeMultiLabel + 1

Modes == {ModeDefault, ModeMultiClass, ModeRegression, ModeBinary, ModeMultiLabel, UnknownMode}

ActTags == {ActivationSigmoid, ActivationReLU, ActivationLinear}

Layouts == UNION {[1..k -> 1..MaxWidth] : k \in 1..MaxLayers}

Configs ==
    UNION {
      [ Inputs : 1..MaxInputs, Layout : {lay}, Mode : Modes, Loss : LossTypes, Bias : BOOLEAN,
        Activation : [1..Len(lay) -> ActTags] \cup [1..(Len(lay) - 1) -> ActTags] ]
      : lay \in Layouts }

\* The values the weight initializer c.Weight() returns.
InitWeights == {0 - 1, 0, 1}

NewInit ==
    /\ cfg \in Configs
    /\ nets = <<>>
    /\ wt = <<>>
    /\ res = "none"
    /\ NoSnapshot
    /\ NoTrainer

(***************************************************************************)
(* NewNeural(c): defaults c.Loss in place, builds the layers (panicking    *)
(* when an activation index is out of range) and returns the network.      *)
(* Here every synapse draws the same initial weight.                       *)
(***************************************************************************)
NewNeural ==
    /\ res = "none"
    /\ cfg' = [cfg EXCEPT !.Loss = DefaultLoss(cfg)]
    /\ UNCHANGED <<cw, nw, trainer>>
    /\ IF InitLayersPanics(cfg)
       THEN /\ res' = "panic"
            /\ UNCHANGED <<nets, wt>>
       ELSE /\ res' = "ok"
            /\ nets' = [id \in {"n"} |-> NewNet(cfg')]
            /\ \E w \in InitWeights : wt' = [x \in Cells(cfg, {"n"}) |-> w]

NewNext == NewNeural

SpecNew == NewInit /\ [][NewNext]_vars

(***************************************************************************)
(* C9: NewNeural sets Config.Loss only when it is LossNone, to             *)
(* cross-entropy for multi-class and multi-label mode, binary              *)
(* cross-entropy for binary mode and mean-squared for every other mode; a  *)
(* loss already set is never overridden.                                   *)
(***************************************************************************)
C9_LossDefault ==
    [][ NewNeural =>
          /\ cfg.Loss # "LossNone" => cfg'.Loss = cfg.Loss
          /\ cfg.Loss = "LossNone" =>
               /\ cfg.Mode \in {ModeMultiClass, ModeMultiLabel} => cfg'.Loss = "LossCrossEntropy"
               /\ cfg.Mode = ModeBinary => cfg'.Loss = "LossBinaryCrossEntropy"
               /\ cfg.Mode \notin {ModeMultiClass, ModeMultiLabel, ModeBinary}
                    => cfg'.Loss = "LossMeanSquared" ]_vars

\* A network was built from a Config whose loss was set to something other
\* than its mode's default, and the loss is still that one.
C9_Witness ==
    /\ res = "ok"
    /\ cfg.Mode = ModeMultiClass
    /\ cfg.Loss = "LossMeanSquared"

(***************************************************************************)
(* C10: layer i < k gets Config.Activation[i]; the last layer gets         *)
(* Config.Activation[k] in default mode and otherwise the mode's output    *)
(* activation, without reading Config.Activation[k]: a Config with k-1     *)
(* activations and a non-default mode constructs successfully.             *)
(***************************************************************************)
C10_LayerActivations ==
    LET k == Len(cfg.Layout) IN
    /\ (res = "ok" /\ cfg.Mode = ModeDefault) => nets["n"].Act[k] = cfg.Activation[k]
    /\ res = "ok" =>
         /\ \A i \in 1..(k - 1) : nets["n"].Act[i] = cfg.Activation[i]
         /\ cfg.Mode = ModeMultiClass => nets["n"].Act[k] = ActivationSoftmax
         /\ cfg.Mode \in {ModeBinary, ModeMultiLabel} => nets["n"].Act[k] = ActivationSigmoid
         /\ cfg.Mode = ModeRegression => nets["n"].Act[k] = ActivationLinear
    /\ (res # "none" /\ cfg.Mode # ModeDefault /\ Len(cfg.Activation) >= k - 1) => res = "ok"

\* A two-layer network built in binary mode from a Config with one activation.
C10_Witness ==
    /\ res = "ok"
    /\ Len(cfg.Layout) = MaxLayers
    /\ Len(cfg.Activation) = MaxLayers - 1
    /\ cfg.Mode = ModeBinary

(***************************************************************************)
(* Forward and Predict on one network.  The network is built from a        *)
(* Config of one or two layers whose activations are exact on integers;    *)
(* its weights are drawn from a two-valued family (a on the synapses with  *)
(* j + k even, b on the others).  Inputs are vectors over 0..MaxInputVal   *)
(* of the right length, and vectors of ones that are one too short or one  *)
(* too long.                                                               *)
(***************************************************************************)
\* The [layer][neuron][synapse] weights of network id, read from memory.
LoadW(c, mem, id) == Nested(c, [s \in Synapses(c) |-> mem[WCell(id, s[1], s[2], s[3])]])

FwdLayouts == {<<2>>, <<1, 2>>, <<2, 2>>}

FwdConfigs ==
    {[c EXCEPT !.Loss = DefaultLoss(c)] :
       c \in [ Inputs : {1, 2}, Layout : FwdLayouts, Bias : BOOLEAN, Loss : {"LossNone"},
               Mode : {ModeDefault, ModeMultiClass, ModeRegression},
               Activation : {<<a, a>> : a \in {ActivationReLU, ActivationLinear}} ]}

WeightDraws(c, id) ==
    {[x \in Cells(c, {id}) |-> IF (x[3] + x[4]) % 2 = 0 THEN a ELSE b] : a, b \in InitWeights}

InputVals == 0..MaxInputVal

InputsFor(c) ==
    [1..c.Inputs -> InputVals] \cup {[i \in 1..n |-> 1] : n \in {c.Inputs - 1, c.Inputs + 1}}

FwdInit ==
    /\ cfg \in FwdConfigs
    /\ nets = [id \in {"n"} |-> NewNet(cfg)]
    /\ wt \in WeightDraws(cfg, "n")
    /\ res = [op |-> "none"]
    /\ NoSnapshot
    /\ NoTrainer

\* err := n.Forward(input, training)
ForwardCall ==
    \E input \in InputsFor(cfg), training \in BOOLEAN :
       /\ nets' = [nets EXCEPT !["n"] = Forward(cfg, @, LoadW(cfg, wt, "n"), input, training)]
       /\ res' = [op |-> "Forward", input |-> input, err |-> ForwardErr(cfg, input)]
       /\ UNCHANGED <<cfg, wt, cw, nw, trainer>>

\* out := n.Predict(input): Forward(input, false), its error dropped, then the
\* values of the output layer.
PredictCall ==
    \E input \in InputsFor(cfg) :
       \E after \in {Forward(cfg, nets["n"], LoadW(cfg, wt, "n"), input, FALSE)} :
          /\ nets' = [nets EXCEPT !["n"] = after]
          /\ res' = [op |-> "Predict", input |-> input, out |-> PredictOut(cfg, after)]
          /\ UNCHANGED <<cfg, wt, cw, nw, trainer>>

FwdNext == ForwardCall \/ PredictCall

SpecFwd == FwdInit /\ [][FwdNext]_vars

(***************************************************************************)
(* C3: Forward returns an error if and only if len(input) # Config.Inputs, *)
(* and when it returns an error no synapse In/Out, neuron Value or weight  *)
(* of the network has changed.  (A step that leaves res.op = "Forward" is  *)
(* a step of ForwardCall.)                                                 *)
(***************************************************************************)
C3_ForwardError ==
    [][ res'.op = "Forward" =>
          /\ res'.err <=> (Len(res'.input) # cfg.Inputs)
          /\ res'.err => (nets' = nets /\ wt' = wt) ]_vars

\* Forward has returned an error on a network that holds the state of an
\* earlier successful pass.
C3_Witness ==
    /\ res.op = "Forward"
    /\ res.err
    /\ Len(res.input) > cfg.Inputs
    /\ \E j \in 1..cfg.Layout[1] : nets["n"].Value[1][j] # 0

C5_PredictSumsToOne ==
    (res.op = "Predict" /\ cfg.Mode = ModeMultiClass /\ Len(res.input) = cfg.Inputs)
       => SumSeq(res.out) = 1

(***************************************************************************)
(* Weight snapshots.  Two networks "n" and "m" are built from one Config   *)
(* (one input, layout [1, 1]); a caller takes snapshots with Weights(),    *)
(* applies the snapshot it holds with ApplyWeights, and writes single      *)
(* weights, of a network (as a trainer does) or of the snapshot it holds.  *)
(***************************************************************************)
PersistConfigs ==
    {[c EXCEPT !.Loss = DefaultLoss(c)] :
       c \in [ Inputs : {1}, Layout : {<<1, 1>>}, Bias : BOOLEAN, Loss : {"LossNone"},
               Mode : {ModeDefault}, Activation : {<<ActivationLinear, ActivationLinear>>} ]}

PersistNets == {"n", "m"}

\* The value a direct write stores: one no initializer draws.
WrittenValue == 1 + 1

PersistInit ==
    /\ cfg \in PersistConfigs
    /\ nets = [id \in PersistNets |-> NewNet(cfg)]
    /\ \E wn \in WeightDraws(cfg, "n"), wm \in WeightDraws(cfg, "m") :
          wt = [x \in Cells(cfg, PersistNets \cup {"slice"}) |->
                  IF x[1] = "n" THEN wn[x] ELSE IF x[1] = "m" THEN wm[x] ELSE 0]
    /\ res = [op |-> "none"]
    /\ cw = <<>>
    /\ nw = 0
    /\ NoTrainer

\* cw := id.Weights()
WeightsCall ==
    \E id \in PersistNets :
       /\ cw' = WeightsRefs(cfg, id)
       /\ wt' = WeightsMem(cfg, wt, id)
       /\ res' = [op |-> "Weights", of |-> id]
       /\ UNCHANGED <<cfg, nets, nw, trainer>>

\* id.ApplyWeights(cw).  res.of is the network cw was taken from when the
\* call directly follows that Weights() call.
ApplyWeightsCall ==
    \E id \in PersistNets :
       /\ cw # <<>>
       /\ wt' = ApplyWeights(cfg, wt, id, cw)
       /\ res' = [op |-> "ApplyWeights", on |-> id,
                  of |-> IF res.op = "Weights" THEN res.of ELSE "none",
                  changed |-> wt' # wt]
       /\ UNCHANGED <<cfg, nets, cw, nw, trainer>>

\* A later write to one weight of a network: s.Weight = v.
WriteNet ==
    \E x \in Cells(cfg, PersistNets) :
       /\ nw < MaxWrites
       /\ nw' = nw + 1
       /\ wt' = [wt EXCEPT ![x] = WrittenValue]
       /\ res' = [op |-> "WriteNet", on |-> x[1]]
       /\ UNCHANGED <<cfg, nets, cw, trainer>>

\* A later write to one element of the snapshot held: cw[l][j][k] = v.
WriteSnapshot ==
    \E s \in Synapses(cfg) :
       /\ cw # <<>>
       /\ nw < MaxWrites
       /\ nw' = nw + 1
       /\ wt' = [wt EXCEPT ![cw[s[1]][s[2]][s[3]]] = WrittenValue]
       /\ res' = [op |-> "WriteSnapshot"]
       /\ UNCHANGED <<cfg, nets, cw, trainer>>

PersistNext == WeightsCall \/ ApplyWeightsCall \/ WriteNet \/ WriteSnapshot

SpecPersist == PersistInit /\ [][PersistNext]_vars

\* The weights of network id, by synapse.
NetWeights(mem, id) == [s \in Synapses(cfg) |-> mem[WCell(id, s[1], s[2], s[3])]]

\* The values of the snapshot held, by synapse.
SnapValues(mem, w) == [s \in Synapses(cfg) |-> mem[w[s[1]][s[2]][s[3]]]]

(***************************************************************************)
(* C6: after m.ApplyWeights(n.Weights()) every synapse weight of m, bias   *)
(* synapses included, equals the corresponding weight of n; and            *)
(* n.ApplyWeights(n.Weights()) leaves every weight of n unchanged.         *)
(***************************************************************************)
C6_RoundTrip ==
    [][ (res'.op = "ApplyWeights" /\ res'.of # "none") =>
          /\ NetWeights(wt', res'.on) = NetWeights(wt', res'.of)
          /\ NetWeights(wt', res'.of) = NetWeights(wt, res'.of)
          /\ res'.on = res'.of => NetWeights(wt', res'.on) = NetWeights(wt, res'.on) ]_vars

\* m.ApplyWeights(n.Weights()) has changed m, on networks with bias
\* synapses whose weights in n differ from one another.
C6_Witness ==
    /\ res.op = "ApplyWeights"
    /\ res.on = "m"
    /\ res.of = "n"
    /\ res.changed
    /\ cfg.Bias
    /\ wt[WCell("n", 1, 1, 1)] # wt[WCell("n", 1, 1, 2)]

(***************************************************************************)
(* C7: the structure returned by Weights() shares no storage with the      *)
(* network and ApplyWeights copies values: a later write to a network      *)
(* weight changes no element of the snapshot held, and a later write to    *)
(* the snapshot or to one network changes no weight of (another) network   *)
(* the snapshot was applied to.                                            *)
(***************************************************************************)
C7_NoSharedStorage ==
    [][ /\ (res'.op = "WriteNet" /\ cw # <<>>) => SnapValues(wt', cw) = SnapValues(wt, cw)
        /\ res'.op = "WriteNet" =>
             \A id \in PersistNets \ {res'.on} : NetWeights(wt', id) = NetWeights(wt, id)
        /\ res'.op = "WriteSnapshot" =>
             \A id \in PersistNets : NetWeights(wt', id) = NetWeights(wt, id) ]_vars

\* After n.Weights() and m.ApplyWeights of it, a weight of n was written and
\* then an element of the snapshot: m still holds the values applied.
C7_Witness ==
    /\ res.op = "WriteSnapshot"
    /\ nw = 2
    /\ cw # <<>>
    /\ wt[WCell("n", 1, 1, 1)] = WrittenValue
    /\ wt[cw[1][1][1]] # WrittenValue
    /\ wt[cw[2][1][1]] = WrittenValue
    /\ \A s \in Synapses(cfg) : wt[WCell("m", s[1], s[2], s[3])] # WrittenValue

(***************************************************************************)
(* The noise-filtering search.  One network with two inputs and one        *)
(* linear output neuron, mean-squared loss; FilterNoise is called any      *)
(* number of times with magnitudes 0, 2 or 2^25 and the random draws       *)
(* ri in 1..Inputs, rf below or above 0.5, ra in {-1, 1/2}.                *)
(*                                                                         *)
(* The forward pass is exact on integers of magnitude up to 2^24.  A call  *)
(* is explored when, with the perturbed vectors, every first-layer input   *)
(* (x + Shift) * Significance of every example is such a product of two    *)
(* factors of magnitude <= MaxTune, or is 0 because one factor is 0.       *)
(***************************************************************************)
NoiseConfigs ==
    {[c EXCEPT !.Loss = DefaultLoss(c)] :
       c \in [ Inputs : {2}, Layout : {<<1>>}, Bias : {FALSE}, Loss : {"LossNone"},
               Mode : {ModeDefault, ModeRegression}, Activation : {<<ActivationLinear>>} ]}

\* The validation examples: input 1 is 0 in every example.
NoiseExamples ==
    << [Input |-> <<0, 1>>, Response |-> <<2>>], [Input |-> <<0, 0>>, Response |-> <<0>>] >>

Magnitudes == {0, 2, 2 ^ 25}

RandomDraws(c) == [ri : 1..c.Inputs, rfHigh : BOOLEAN, ra2 : {0 - 2, 1}]

InRange(net, examples) ==
    \A e \in 1..Len(examples), i \in 1..Len(net.Shift) :
       LET t == examples[e].Input[i] + net.Shift[i] IN
       IF t = 0 \/ net.Significance[i] = 0 THEN TRUE
       ELSE Abs(t) <= MaxTune /\ Abs(net.Significance[i]) <= MaxTune

NoiseInit ==
    /\ cfg \in NoiseConfigs
    /\ nets = [id \in {"n"} |-> NewNet(cfg)]
    /\ wt \in WeightDraws(cfg, "n")
    /\ res = [op |-> "none"]
    /\ NoSnapshot
    /\ NoTrainer

\* The network as FilterNoise perturbs it (before the second evaluation).
Perturbed(net, Significance, Shift, rnd) ==
    IF ShiftBranch(Significance, Shift, rnd.rfHigh)
    THEN [net EXCEPT !.Shift = Perturb(@, rnd.ri, Shift, rnd.ra2)]
    ELSE [net EXCEPT !.Significance = Perturb(@, rnd.ri, Significance, rnd.ra2)]

\* ret := FilterNoise(n, examples, Significance, Shift).  res keeps the two
\* vectors as they were before the call.
FilterNoiseCall ==
    \E Significance \in Magnitudes, Shift \in Magnitudes, rnd \in RandomDraws(cfg) :
       /\ IF Significance = 0 /\ Shift = 0 THEN TRUE
          ELSE InRange(Perturbed(nets["n"], Significance, Shift, rnd), NoiseExamples)
       /\ \E r \in {FilterNoise(cfg, nets["n"], LoadW(cfg, wt, "n"), NoiseExamples,
                                Significance, Shift, rnd)} :
             /\ InRange(r.net, NoiseExamples)
             /\ nets' = [nets EXCEPT !["n"] = r.net]
             /\ res' = [op |-> "FilterNoise", ret |-> r.ret, acc |-> r.acc, updAcc |-> r.updAcc,
                        Significance |-> Significance, Shift |-> Shift, rnd |-> rnd,
                        before |-> [Shift |-> nets["n"].Shift,
                                    Significance |-> nets["n"].Significance]]
             /\ UNCHANGED <<cfg, wt, cw, nw, trainer>>

NoiseNext == FilterNoiseCall

SpecNoise == NoiseInit /\ [][NoiseNext]_vars

(***************************************************************************)
(* C8 (as claimed): in FilterNoise with a non-zero magnitude, if the loss  *)
(* after the perturbation is not lower than the loss before it, the        *)
(* returned loss is the loss before and every element of Significance and  *)
(* Shift has its value of before the call; otherwise the perturbation is   *)
(* kept and the new loss is returned.                                      *)
(***************************************************************************)
C8_RevertOrKeep ==
    (res.op = "FilterNoise" /\ (res.Significance # 0 \/ res.Shift # 0)) =>
       IF res.updAcc >= res.acc
       THEN /\ res.ret = res.acc
            /\ nets["n"].Significance = res.before.Significance
            /\ nets["n"].Shift = res.before.Shift
       ELSE /\ res.ret = res.updAcc
            /\ \/ nets["n"].Significance # res.before.Significance
               \/ nets["n"].Shift # res.before.Shift

(***************************************************************************)
(* BatchTrainer.Train (batchTrainer.go 124-203) with its worker,           *)
(* reduction and apply goroutines.  The run trains a network of one input  *)
(* and layout [1, 1] (linear, no bias) with two workers; every iteration   *)
(* has one mini-batch holding both examples, and the run has MaxBatches    *)
(* iterations.  The solver is SGD with lr = 1, no momentum and no decay.   *)
(* The examples teach the identity: the first one has a gradient as long   *)
(* as the first-layer weight is not 1, the second one never has one.       *)
(* Every value of the run is a small integer, which float32 holds exactly. *)
(***************************************************************************)
MaxBatches == 2

TrainConfig ==
    [ Inputs |-> 1, Layout |-> <<1, 1>>, Bias |-> FALSE, Loss |-> "LossMeanSquared",
      Mode |-> ModeRegression, Activation |-> <<ActivationLinear, ActivationLinear>> ]

TrainExamples == <<[Input |-> <<1>>, Response |-> <<1>>], [Input |-> <<0>>, Response |-> <<0>>]>>

\* The workers 0..parallelism-1 of lines 136-147, numbered from 1.
Workers == {1, 2}

\* nets[w]: the replica of worker w.
Replica(w) == <<"r1", "r2">>[w]

Replicas == {Replica(w) : w \in Workers}

\* The synapses of layer l in the order the loops over l.Neurons and n.In
\* visit them, and the synapses of the whole network in that order.
LayerSlots(c, l) ==
    [i \in 1..(c.Layout[l] * NumIn(c, l)) |->
       <<l, ((i - 1) \div NumIn(c, l)) + 1, ((i - 1) % NumIn(c, l)) + 1>>]

RECURSIVE SlotsUpTo(_, _)
SlotsUpTo(c, l) == IF l = 0 THEN <<>> ELSE SlotsUpTo(c, l - 1) \o LayerSlots(c, l)

AllSlots(c) == SlotsUpTo(c, NumLayers(c))

\* The Mem of the value GetActivation returns (Custom{}, RootPow{}, ...):
\* a nil map.  Every Activate and DActivate calls GetActivation anew
\* (part_004 lines 32-38) and F and Df have value receivers, so an entry F
\* stores is in a map no later call sees.
FreshMem == <<>>

\* a.Mem[y]: the zero value when y is not a key.
MemAt(mem, y) == IF y \in DOMAIN mem THEN mem[y] ELSE 0

\* Df of the activations that are exact on integers.  Custom.Df with no
\* hook returns x := a.Mem[y]; RootPow.Df(v) is 0 at 0 and 2v + 1 above.
ActDf(tag, y) ==
    CASE tag = ActivationReLU -> IF y > 0 THEN 1 ELSE 0
      [] tag = ActivationLinear -> 1
      [] tag = ActivationSoftmax -> 1
      [] tag = ActivationNone -> 1
      [] tag = ActivationCustom -> MemAt(FreshMem, y)
      [] tag \in {ActivationRootPow, ActivationDoublePow} /\ y >= 0 ->
           IF y = 0 THEN 0 ELSE (2 * y) + 1

\* loss.Df(estimate, ideal, activation).
LossDf(loss, estimate, ideal, activation) ==
    IF loss = "LossMeanSquared" THEN (estimate - ideal) * activation ELSE estimate - ideal

\* calculateDeltas lines 218-232: sum over neuron.Out of s.Weight * nextD[k].
RECURSIVE OutSum(_, _, _, _, _, _)
OutSum(c, w, nextD, l, j, k) ==
    IF k = 0 THEN 0 ELSE OutSum(c, w, nextD, l, j, k - 1) + w[l + 1][k][j] * nextD[k]

\* deltas[wid] of layers l..NumLayers after lines 211-232, as a function
\* of the layer.
RECURSIVE Deltas(_, _, _, _, _)
Deltas(c, net, w, ideal, l) ==
    IF l = NumLayers(c)
    THEN [i \in {l} |->
            [j \in 1..c.Layout[l] |->
               LossDf(c.Loss, net.Value[l][j], ideal[j], ActDf(net.Act[l], net.Value[l][j]))]]
    ELSE LET next == Deltas(c, net, w, ideal, l + 1) IN
         [i \in l..NumLayers(c) |->
            IF i > l THEN next[i]
            ELSE [j \in 1..c.Layout[l] |->
                    ActDf(net.Act[l], net.Value[l][j])
                    * OutSum(c, w, next[l + 1], l, j, c.Layout[l + 1])]]

\* partialDeltas[wid] after lines 234-246: jPD[k] += jD * s.In.
PartialDeltas(c, net, deltas, pd) ==
    [s \in Synapses(c) |-> pd[s] + deltas[s[1]][s[2]] * net.SIn[s[1]][s[2]][s[3]]]

\* SGD.Update with lr = 1, momentum = 0, decay = 0 and no nesterov:
\* moments[idx] = momentum*moments[idx] - lr*gradient, which is returned.
SGDMoment(moment, gradient) == 0 * moment - 1 * gradient

Layers == 1..NumLayers(TrainConfig)

\* An update() call is named by the number of the mini-batch it ends.
ApplyTasks == (1..MaxBatches) \X Layers

\* update(n, it) is passed the authoritative network (line 195).
UpdateTarget == "n"

\* newBatchTraining (lines 30-53), the channels and the wait group.
\* adBefore and pdBefore are history: accumulatedDeltas and partialDeltas
\* as they were when the reduction goroutines of the mini-batch were
\* started, kept until update() is called and zero otherwise; fwd and cd,
\* also history, count per example of the mini-batch the Forward calls and
\* the calculateDeltas calls that have returned, until update() is called.
NewTrainer ==
    [ workCh  |-> <<>>,
      wg      |-> 0,
      deltas  |-> [w \in Workers |-> [l \in Layers |-> [j \in 1..TrainConfig.Layout[l] |-> 0]]],
      pd      |-> [w \in Workers |-> [s \in Synapses(TrainConfig) |-> 0]],
      ad      |-> [s \in Synapses(TrainConfig) |-> 0],
      adBefore |-> [s \in Synapses(TrainConfig) |-> 0],
      pdBefore |-> [w \in Workers |-> [s \in Synapses(TrainConfig) |-> 0]],
      fwd     |-> [e \in 1..Len(TrainExamples) |-> 0],
      cd      |-> [e \in 1..Len(TrainExamples) |-> 0],
      moments |-> <<>>,
      rch     |-> 0,
      uch     |-> [g \in 1..MaxBatches |-> 0],
      mut     |-> [g \in 1..MaxBatches |-> 0] ]

\* Train has been called on network "n", whose weights are 0 in layer 1
\* and 1 in layer 2; the replicas do not exist yet.
TrainInit ==
    /\ cfg = TrainConfig
    /\ nets = [id \in {"n"} \cup Replicas |-> NewNet(cfg)]
    /\ wt = [x \in Cells(cfg, {"n", "slice"} \cup Replicas) |-> IF x[1] = "n" /\ x[2] > 1 THEN 1 ELSE 0]
    /\ res = [op |-> "none"]
    /\ NoSnapshot
    /\ main = [pc |-> "start", b |-> 0, i |-> 0]
    /\ wk = [w \in Workers |-> [pc |-> "none", e |-> 0]]
    /\ red = [w \in Workers |-> [pc |-> "none", s |-> 0, tmp |-> 0]]
    /\ app = [t \in ApplyTasks |-> [pc |-> "none", s |-> 0, idx |-> 0, update |-> 0, tmp |-> 0]]
    /\ tb = NewTrainer

\* Lines 126-156: the trainer's tensors, the replicas and their workers,
\* solver.Init(n.NumWeights()), and the first mini-batch.
TrainStart ==
    /\ main.pc = "start"
    /\ main' = [pc |-> "snap", b |-> 1, i |-> 0]
    /\ wk' = [w \in Workers |-> [pc |-> "recv", e |-> 0]]
    /\ tb' = [NewTrainer EXCEPT !.moments = [x \in 0..(NumWeights(cfg) - 1) |-> 0]]
    /\ nets' = [id \in DOMAIN nets |-> IF id \in Replicas THEN NewNet(cfg) ELSE nets[id]]
    /\ UNCHANGED <<cfg, wt, res, cw, nw, red, app>>

\* Line 159, currentWeights := n.Weights(): one element is copied from
\* in.Weight (persist.go line 34); after the last one the slices are
\* returned.
TrainSnapshot ==
    /\ main.pc = "snap"
    /\ LET s == AllSlots(cfg)[main.i + 1] IN
       wt' = [wt EXCEPT ![WCell("slice", s[1], s[2], s[3])] = wt[WCell("n", s[1], s[2], s[3])]]
    /\ IF main.i + 1 < NumWeights(cfg)
       THEN main' = [main EXCEPT !.i = @ + 1] /\ cw' = <<>>
       ELSE main' = [main EXCEPT !.pc = "bcast", !.i = 0] /\ cw' = WeightsRefs(cfg, "n")
    /\ UNCHANGED <<cfg, nets, res, nw, wk, red, app, tb>>

\* (mutant) the replica is given the network's weights as they are now.
BroadcastFresh(c, mem, r, weights) == ApplyWeights(c, mem, r, WeightsRefsAliased(c, "n"))

\* Line 161: n.ApplyWeights(currentWeights) on replica r.
Broadcast(c, mem, r, weights) == ApplyWeights(c, mem, r, weights)

\* Lines 160-164: the next replica is given currentWeights; after the last
\* one, wg.Add(len(b)).
TrainBroadcast ==
    /\ main.pc = "bcast"
    /\ wt' = Broadcast(cfg, wt, Replica(main.i + 1), cw)
    /\ IF main.i + 1 < Cardinality(Workers)
       THEN main' = [main EXCEPT !.i = @ + 1] /\ tb' = tb
       ELSE /\ main' = [main EXCEPT !.pc = "send", !.i = 0]
            /\ tb' = [tb EXCEPT !.wg = @ + Len(TrainExamples)]
    /\ UNCHANGED <<cfg, nets, res, cw, nw, wk, red, app>>

\* Lines 166-168: workCh <- item, blocking while the channel is full.
TrainDispatch ==
    /\ main.pc = "send"
    /\ Len(tb.workCh) < Cardinality(Workers)
    /\ tb' = [tb EXCEPT !.workCh = Append(@, main.i + 1)]
    /\ main' = IF main.i + 1 < Len(TrainExamples)
               THEN [main EXCEPT !.i = @ + 1]
               ELSE [main EXCEPT !.pc = "wait", !.i = 0]
    /\ UNCHANGED <<cfg, nets, wt, res, cw, nw, wk, red, app>>

\* (mutant) the wait returns while one Done is still outstanding.
WaitReturnsEarly(wg) == wg <= 1

\* Line 169, wg.Wait(): it returns when the counter is zero.
WaitReturns(wg) == wg = 0

\* Lines 169-189: wg.Wait() returns, the reduction channel is made and one
\* reduction goroutine per worker is started.
TrainReduce ==
    /\ main.pc = "wait"
    /\ WaitReturns(tb.wg)
    /\ main' = [main EXCEPT !.pc = "rwait", !.i = 0]
    /\ red' = [w \in Workers |-> [pc |-> "read", s |-> 1, tmp |-> 0]]
    /\ tb' = [tb EXCEPT !.rch = 0, !.adBefore = tb.ad, !.pdBefore = tb.pd]
    /\ UNCHANGED <<cfg, nets, wt, res, cw, nw, wk, app>>

\* (mutant) Train receives once more than there are reduction goroutines.
ReduceReceivesOneMore == Cardinality(Workers) + 1

\* Line 191, for _, _ = range t.partialDeltas: the number of receives.
ReduceReceives == Cardinality(Workers)

\* Lines 191-193: one <-ch per worker.
TrainReduceWait ==
    /\ main.pc = "rwait"
    /\ tb.rch > 0
    /\ tb' = [tb EXCEPT !.rch = @ - 1]
    /\ main' = IF main.i + 1 < ReduceReceives
               THEN [main EXCEPT !.i = @ + 1]
               ELSE [main EXCEPT !.pc = "update", !.i = 0]
    /\ UNCHANGED <<cfg, nets, wt, res, cw, nw, wk, red, app>>

\* update lines 253-280: a new mutex, a new channel, and one apply
\* goroutine per layer, whose idx starts at the layer's index i.
TrainUpdate ==
    /\ main.pc = "update"
    /\ app' = [t \in ApplyTasks |->
                 IF t[1] = main.b
                 THEN [pc |-> "update", s |-> 1, idx |-> t[2] - 1, update |-> 0, tmp |-> 0]
                 ELSE app[t]]
    /\ tb' = [tb EXCEPT !.uch[main.b] = 0, !.mut[main.b] = 0,
                        !.adBefore = NewTrainer.adBefore, !.pdBefore = NewTrainer.pdBefore,
                        !.fwd = NewTrainer.fwd, !.cd = NewTrainer.cd]
    /\ main' = [main EXCEPT !.pc = "uwait"]
    /\ UNCHANGED <<cfg, nets, wt, res, cw, nw, wk, red>>

\* update lines 282-284, for <-ch { }: a value is received; every value
\* sent is false, so the loop ends and update returns.  Train goes on to
\* the next mini-batch, or returns after the last one.
TrainUpdateWaitOf(iterations) ==
    /\ main.pc = "uwait"
    /\ tb.uch[main.b] > 0
    /\ tb' = [tb EXCEPT !.uch[main.b] = @ - 1]
    /\ main' = IF main.b < iterations
               THEN [pc |-> "snap", b |-> main.b + 1, i |-> 0]
               ELSE [main EXCEPT !.pc = "done"]
    /\ UNCHANGED <<cfg, nets, wt, res, cw, nw, wk, red, app>>

\* Train called with iterations = MaxBatches.
TrainUpdateWait == TrainUpdateWaitOf(MaxBatches)

\* (mutant) every goroutine sees the same id, as it would if the closure
\* captured the loop variable.
WorkerIdShared(w) == 1

\* Lines 139 and 146, go func(id int, ...) { n := nets[id] ... }(i, workCh):
\* the goroutine of worker w is passed its own index as id.
WorkerId(w) == w

\* Lines 141-142: worker w receives an example from workCh and runs
\* n.Forward(e.Input, true) on n = nets[id].
WorkerForward(w) ==
    /\ wk[w].pc = "recv"
    /\ tb.workCh # <<>>
    /\ LET e == Head(tb.workCh)
           r == Replica(WorkerId(w)) IN
       /\ wk' = [wk EXCEPT ![w] = [pc |-> "deltas", e |-> e]]
       /\ nets' = [nets EXCEPT ![r] =
                     Forward(cfg, @, LoadW(cfg, wt, r), TrainExamples[e].Input, TRUE)]
    /\ tb' = [tb EXCEPT !.workCh = Tail(@), !.fwd[Head(tb.workCh)] = @ + 1]
    /\ UNCHANGED <<cfg, wt, res, cw, nw, main, red, app>>

\* Lines 143-144: t.calculateDeltas(n, e.Response, id), then wg.Done().
WorkerDeltas(w) ==
    /\ wk[w].pc = "deltas"
    /\ LET id == WorkerId(w)
           d == Deltas(cfg, nets[Replica(id)], LoadW(cfg, wt, Replica(id)),
                       TrainExamples[wk[w].e].Response, 1) IN
       tb' = [tb EXCEPT !.deltas[id] = d,
                        !.pd[id] = PartialDeltas(cfg, nets[Replica(id)], d, @),
                        !.wg = @ - 1,
                        !.cd[wk[w].e] = @ + 1]
    /\ wk' = [wk EXCEPT ![w] = [pc |-> "recv", e |-> 0]]
    /\ UNCHANGED <<cfg, nets, wt, res, cw, nw, main, red, app>>

\* Line 182, jAD[k] += v: the reduction goroutine of worker w reads jAD[k].
ReduceRead(w) ==
    /\ red[w].pc = "read"
    /\ red' = [red EXCEPT ![w].pc = "write", ![w].tmp = tb.ad[AllSlots(cfg)[red[w].s]]]
    /\ UNCHANGED <<cfg, nets, wt, res, cw, nw, main, wk, app, tb>>

\* Lines 182-183: it stores the sum in jAD[k] and zeroes jPD[k]; after
\* the last slot, ch <- false (line 187).
ReduceWrite(w) ==
    /\ red[w].pc = "write"
    /\ LET s == AllSlots(cfg)[red[w].s]
           last == red[w].s = NumWeights(cfg) IN
       /\ tb' = [tb EXCEPT !.ad[s] = red[w].tmp + tb.pd[w][s], !.pd[w][s] = 0,
                           !.rch = IF last THEN @ + 1 ELSE @]
       /\ red' = [red EXCEPT ![w] = IF last THEN [pc |-> "done", s |-> 0, tmp |-> 0]
                                    ELSE [pc |-> "read", s |-> red[w].s + 1, tmp |-> 0]]
    /\ UNCHANGED <<cfg, nets, wt, res, cw, nw, main, wk, app>>

\* The synapse the apply goroutine t is at.
ApplySlot(t) == LayerSlots(cfg, t[2])[app[t].s]

\* update lines 263-266: update := t.solver.Update(s.Weight, jAD[k], it, idx).
ApplyUpdate(t) ==
    /\ app[t].pc = "update"
    /\ LET m == SGDMoment(tb.moments[app[t].idx], tb.ad[ApplySlot(t)]) IN
       /\ tb' = [tb EXCEPT !.moments[app[t].idx] = m]
       /\ app' = [app EXCEPT ![t].pc = "lock", ![t].update = m]
    /\ UNCHANGED <<cfg, nets, wt, res, cw, nw, main, wk, red>>

\* Lines 268-269: mut.Lock() of this update() call's mutex, and the read
\* of s.Weight of s.Weight += update.
ApplyLock(t) ==
    /\ app[t].pc = "lock"
    /\ tb.mut[t[1]] = 0
    /\ tb' = [tb EXCEPT !.mut[t[1]] = t[2]]
    /\ LET s == ApplySlot(t) IN
       app' = [app EXCEPT ![t].pc = "write", ![t].tmp = wt[WCell(UpdateTarget, s[1], s[2], s[3])]]
    /\ UNCHANGED <<cfg, nets, wt, res, cw, nw, main, wk, red>>

\* Lines 269-270: the write of s.Weight, and mut.Unlock().
ApplyWrite(t) ==
    /\ app[t].pc = "write"
    /\ LET s == ApplySlot(t) IN
       wt' = [wt EXCEPT ![WCell(UpdateTarget, s[1], s[2], s[3])] = app[t].tmp + app[t].update]
    /\ tb' = [tb EXCEPT !.mut[t[1]] = 0]
    /\ app' = [app EXCEPT ![t].pc = "zero", ![t].tmp = 0, ![t].update = 0]
    /\ UNCHANGED <<cfg, nets, res, cw, nw, main, wk, red>>

\* Lines 272-278: jAD[k] = 0 and idx++; after the last synapse of the
\* layer, ch <- false on this update() call's channel.
ApplyZero(t) ==
    /\ app[t].pc = "zero"
    /\ LET last == app[t].s = Len(LayerSlots(cfg, t[2])) IN
       /\ tb' = [tb EXCEPT !.ad[ApplySlot(t)] = 0, !.uch[t[1]] = IF last THEN @ + 1 ELSE @]
       /\ app' = [app EXCEPT ![t] =
                    IF last THEN [pc |-> "done", s |-> 0, idx |-> 0, update |-> 0, tmp |-> 0]
                    ELSE [@ EXCEPT !.pc = "update", !.s = @ + 1, !.idx = @ + 1]]
    /\ UNCHANGED <<cfg, nets, wt, res, cw, nw, main, wk, red>>

TrainNext ==
    \/ TrainStart \/ TrainSnapshot \/ TrainBroadcast \/ TrainDispatch
    \/ TrainReduce \/ TrainReduceWait \/ TrainUpdate \/ TrainUpdateWait
    \/ \E w \in Workers : WorkerForward(w) \/ WorkerDeltas(w)
    \/ \E w \in Workers : ReduceRead(w) \/ ReduceWrite(w)
    \/ \E t \in ApplyTasks :
          ApplyUpdate(t) \/ ApplyLock(t) \/ ApplyWrite(t) \/ ApplyZero(t)

SpecTrain == TrainInit /\ [][TrainNext]_vars

\* The apply goroutine t has made the last of its weight writes.
WritesDone(t) ==
    \/ app[t].pc = "done"
    \/ app[t].pc = "zero" /\ app[t].s = Len(LayerSlots(cfg, t[2]))

\* Mini-batch b has begun: its broadcast has read a weight of the network.
BatchBegun(b) == main.b > b \/ (main.b = b /\ ~(main.pc = "snap" /\ main.i = 0))

(***************************************************************************)
(* C1: for consecutive mini-batches n and n+1, the weight broadcast of     *)
(* batch n+1 and its gradient computation begin only after every per-layer *)
(* apply task started by update() for batch n has finished all of its      *)
(* weight writes.                                                          *)
(***************************************************************************)
C1_BatchesSequential ==
    \A t \in ApplyTasks : BatchBegun(t[1] + 1) => WritesDone(t)

\* From the first dispatch of a mini-batch to the return of wg.Wait().
InGradientPhase == main.pc = "wait" \/ (main.pc = "send" /\ main.i >= 1)

(***************************************************************************)
(* C2: within one mini-batch, while a worker is in its forward pass or     *)
(* its delta computation, every replica holds the weights of the one       *)
(* snapshot currentWeights, so all replicas hold identical weights; and no *)
(* replica weight is written between the first dispatch of the batch and   *)
(* the return of the work-completion wait.                                 *)
(***************************************************************************)
C2_ReplicasIdentical ==
    [][ /\ (\E w \in Workers : wk'[w].pc = "deltas") =>
             /\ InGradientPhase'
             /\ \A r \in Replicas : NetWeights(wt', r) = SnapValues(wt', cw')
             /\ \A r, q \in Replicas : NetWeights(wt', r) = NetWeights(wt', q)
        /\ (InGradientPhase /\ InGradientPhase') =>
             \A r \in Replicas : NetWeights(wt', r) = NetWeights(wt, r) ]_vars

\* In a later mini-batch a worker computes its deltas after an apply
\* goroutine of an earlier update() call has written a weight of the
\* authoritative network, which now differs from the replicas'.
C2_Witness ==
    /\ main.b > 1
    /\ InGradientPhase
    /\ \E w \in Workers : wk[w].pc = "deltas"
    /\ \E t \in ApplyTasks : t[1] < main.b /\ app[t].pc = "zero"
    /\ NetWeights(wt, UpdateTarget) # NetWeights(wt, Replica(1))

(***************************************************************************)
(* The life of one network "n".  Either it has just been built by          *)
(* NewNeural, and its caller calls Forward, Predict, FilterNoise,          *)
(* Weights() and ApplyWeights on it in any order; or it has been tuned by  *)
(* FilterNoise (Shift 1, Significance 2) and Train has just been called    *)
(* on it.                                                                  *)
(***************************************************************************)
\* No goroutine of a trainer exists.
IdleTrainer ==
    /\ wk = [w \in Workers |-> [pc |-> "none", e |-> 0]]
    /\ red = [w \in Workers |-> [pc |-> "none", s |-> 0, tmp |-> 0]]
    /\ app = [t \in ApplyTasks |-> [pc |-> "none", s |-> 0, idx |-> 0, update |-> 0, tmp |-> 0]]
    /\ tb = NewTrainer

LifeBuilt ==
    /\ cfg \in NoiseConfigs
    /\ nets = [id \in {"n"} |-> NewNet(cfg)]
    /\ wt = [x \in Cells(cfg, {"n", "slice"}) |-> IF x[1] = "n" THEN 0 - 1 ELSE 0]
    /\ res = [op |-> "none"]
    /\ NoSnapshot
    /\ main = [pc |-> "idle", b |-> 0, i |-> 0]
    /\ IdleTrainer

LifeTrainCalled ==
    /\ cfg = TrainConfig
    /\ nets = [id \in {"n"} \cup Replicas |->
                 IF id = "n"
                 THEN [NewNet(cfg) EXCEPT !.Shift = [i \in 1..cfg.Inputs |-> 1],
                                          !.Significance = [i \in 1..cfg.Inputs |-> 1 + 1]]
                 ELSE NewNet(cfg)]
    /\ wt = [x \in Cells(cfg, {"n", "slice"} \cup Replicas) |-> IF x[1] = "n" /\ x[2] > 1 THEN 1 ELSE 0]
    /\ res = [op |-> "none"]
    /\ NoSnapshot
    /\ main = [pc |-> "start", b |-> 0, i |-> 0]
    /\ IdleTrainer

LifeInit == LifeBuilt \/ LifeTrainCalled

\* cw := n.Weights()
LifeWeights ==
    /\ cw' = WeightsRefs(cfg, "n")
    /\ wt' = WeightsMem(cfg, wt, "n")
    /\ res' = [op |-> "Weights", of |-> "n"]
    /\ UNCHANGED <<cfg, nets, nw, trainer>>

\* n.ApplyWeights(cw)
LifeApplyWeights ==
    /\ cw # <<>>
    /\ wt' = ApplyWeights(cfg, wt, "n", cw)
    /\ res' = [op |-> "ApplyWeights", on |-> "n", of |-> "n", changed |-> wt' # wt]
    /\ UNCHANGED <<cfg, nets, cw, nw, trainer>>

LifeNext ==
    \/ /\ main.pc = "idle"
       /\ ForwardCall \/ PredictCall \/ FilterNoiseCall \/ LifeWeights \/ LifeApplyWeights
    \/ TrainNext

SpecLife == LifeInit /\ [][LifeNext]_vars

\* The vectors NewNeural makes (lines 76-82).
FreshVectors(net) ==
    /\ net.Shift = [i \in 1..cfg.Inputs |-> 0]
    /\ net.Significance = [i \in 1..cfg.Inputs |-> 1]

(***************************************************************************)
(* C11: in every state reached through NewNeural, Forward, Predict,        *)
(* ApplyWeights, Train and FilterNoise, Significance and Shift of every    *)
(* network have Config.Inputs elements; a network NewNeural has just made  *)
(* (the caller's, and every replica Train makes) has them all 1 and all    *)
(* 0; and no operation other than FilterNoise changes any element.         *)
(***************************************************************************)
C11_TuningVectors ==
    /\ main.pc = "idle" => FreshVectors(nets["n"])
    /\ \A id \in DOMAIN nets : Len(nets[id].Shift) = cfg.Inputs /\ Len(nets[id].Significance) = cfg.Inputs
    /\ [][ /\ \A id \in DOMAIN nets' :
                Len(nets'[id].Shift) = cfg'.Inputs /\ Len(nets'[id].Significance) = cfg'.Inputs
           /\ (main.pc = "start" /\ main'.pc # "start") =>
                \A r \in Replicas : FreshVectors(nets'[r])
           /\ res'.op # "FilterNoise" =>
                \A id \in DOMAIN nets :
                   nets'[id].Shift = nets[id].Shift /\ nets'[id].Significance = nets[id].Significance ]_vars

\* Predict has run on a network whose two vectors FilterNoise has changed.
C11_Witness ==
    /\ res.op = "Predict"
    /\ \E i \in 1..cfg.Inputs : nets["n"].Shift[i] # 0
    /\ \E i \in 1..cfg.Inputs : nets["n"].Significance[i] # 1

(***************************************************************************)
(* One neuron and its activation: a network of one input and one neuron    *)
(* with weight 1 and no bias, so that Forward(<<x>>, training) leaves      *)
(* Value = Activate(x, training); DActivate is then called on Value, as    *)
(* calculateDeltas does (batchTrainer.go lines 212-215 and 229).  No       *)
(* custom hook is installed.  Inputs are the integers of magnitude up to   *)
(* MaxActX on which the tag's F is a polynomial.                           *)
(***************************************************************************)
MaxActX == 3

ActSpecTags == ExactTags \cup {ActivationRootPow, ActivationDoublePow}

ActConfigs ==
    [ Inputs : {1}, Layout : {<<1>>}, Bias : {FALSE}, Loss : {"LossMeanSquared"},
      Mode : {ModeDefault}, Activation : {<<tag>> : tag \in ActSpecTags} ]

ActInputs(tag) ==
    IF tag \in {ActivationRootPow, ActivationDoublePow} THEN 0..MaxActX ELSE (0 - MaxActX)..MaxActX

ActInit ==
    /\ cfg \in ActConfigs
    /\ nets = [id \in {"n"} |-> NewNet(cfg)]
    /\ wt = [x \in Cells(cfg, {"n"}) |-> 1]
    /\ res = [op |-> "none"]
    /\ NoSnapshot
    /\ NoTrainer

\* The exact tags whose F stores a.Mem[ans] = x in training mode.
Memoizes(tag) == tag = ActivationCustom

\* Custom.F lines 552-567 on the map of its receiver: a nil Mem is
\* replaced by an empty map, and a.Mem[ans] = x is stored when training.
StoreF(tag, mem, x, ans, training) ==
    IF Memoizes(tag) /\ training
    THEN [k \in DOMAIN mem \cup {ans} |-> IF k = ans THEN x ELSE mem[k]]
    ELSE mem

\* n.Forward([x], training): the neuron's Value becomes Activate(x, training).
\* res.mem is the map of the value F ran on, GetActivation(n.A) of
\* Neuron.Activate, as F leaves it.
ActivateCall ==
    \E x \in ActInputs(cfg.Activation[1]), training \in BOOLEAN :
       /\ nets' = [nets EXCEPT !["n"] = Forward(cfg, @, LoadW(cfg, wt, "n"), <<x>>, training)]
       /\ res' = [op |-> "Activate", x |-> x, training |-> training,
                  mem |-> StoreF(cfg.Activation[1], FreshMem, x,
                                 ActF(cfg.Activation[1], x, training), training)]
       /\ UNCHANGED <<cfg, wt, cw, nw, trainer>>

\* d := neuron.DActivate(neuron.Value), after a forward pass.  Df runs on
\* GetActivation(n.A) of Neuron.DActivate; res.got is x := a.Mem[y] on it.
DActivateCall ==
    /\ res.op = "Activate"
    /\ res' = [op |-> "DActivate", x |-> res.x, training |-> res.training,
               y |-> nets["n"].Value[1][1],
               got |-> MemAt(FreshMem, nets["n"].Value[1][1]),
               d |-> ActDf(nets["n"].Act[1], nets["n"].Value[1][1])]
    /\ UNCHANGED <<cfg, nets, wt, cw, nw, trainer>>

ActNext == ActivateCall \/ DActivateCall

SpecAct == ActInit /\ [][ActNext]_vars

(***************************************************************************)
(* C12: with no custom hook installed, a neuron tagged ActivationCustom    *)
(* behaves like a linear neuron in both directions: Activate(x, training)  *)
(* = x, and DActivate(y) = 1 for every y, also after a training-mode       *)
(* forward pass.                                                           *)
(***************************************************************************)
C12_CustomIsLinear ==
    cfg.Activation[1] = ActivationCustom =>
       /\ res.op = "Activate" => nets["n"].Value[1][1] = res.x
       /\ res.op = "DActivate" => res.d = 1

\* The inputs at which F of the tag is differentiable with the central
\* difference exact: away from the kink of ReLU, and on the quadratic
\* branch x > 0 of RootPow (F(0) = 0 continues that branch).
Smooth(tag, x) ==
    CASE tag = ActivationReLU -> x # 0
      [] tag \in {ActivationRootPow, ActivationDoublePow} -> x >= 1
      [] OTHER -> TRUE

\* The derivative of F at x, as the central difference of F, which is exact
\* for polynomials of degree up to 2.
Derivative(tag, x) == (ActF(tag, x + 1, FALSE) - ActF(tag, x - 1, FALSE)) \div 2

(***************************************************************************)
(* C13: for every activation tag and every input x of the sample, Df       *)
(* applied to the output y = F(x, false), which is what DActivate(Value)   *)
(* computes, equals the derivative of F at x; for RootPow and x > 0,       *)
(* F(x) = (x + 0.5)^2 - 0.25 and Df(v) = 2v + 1.                           *)
(***************************************************************************)
C13_DfOfOutput ==
    (res.op = "DActivate" /\ ~res.training /\ Smooth(cfg.Activation[1], res.x)) =>
       res.d = Derivative(cfg.Activation[1], res.x)

\* The sum over all workers of slot s of their partial-gradient tensors.
WorkersSum(pd, s) == SumSeq([w \in 1..Cardinality(Workers) |-> pd[w][s]])

(***************************************************************************)
(* C14: after the reduction barrier of a mini-batch (Train has received    *)
(* one value per worker and is about to call update), under every          *)
(* interleaving of the reduction goroutines, each slot of                  *)
(* accumulatedDeltas equals its value before the reduction plus the sum    *)
(* over all workers of that slot of partialDeltas.                         *)
(***************************************************************************)
C14_ReductionExact ==
    main.pc = "update" =>
       \A s \in Synapses(cfg) : tb.ad[s] = tb.adBefore[s] + WorkersSum(tb.pdBefore, s)

(***************************************************************************)
(* The flat index of update().  Train calls solver.Init once and then      *)
(* update() once per mini-batch; here accumulatedDeltas is zero            *)
(* throughout (the network fits its examples), so every Update returns 0   *)
(* and an apply goroutine takes two steps per synapse: into solver.Update   *)
(* and out of it through the weight write.                                 *)
(* res.used is history: the idx each Update call was given, by update()    *)
(* call and synapse.                                                       *)
(***************************************************************************)
MaxCalls == 2

IndexLayouts == {<<1>>, <<1 + 1>>, <<1, 1>>, <<1 + 1, 1>>, <<1, 1 + 1>>}

IndexConfigs ==
    [ Inputs : {1, 1 + 1}, Layout : IndexLayouts, Bias : BOOLEAN, Loss : {"LossMeanSquared"},
      Mode : {ModeRegression}, Activation : {<<ActivationLinear, ActivationLinear>>} ]

IndexTasks(c) == (1..MaxCalls) \X (1..NumLayers(c))

\* (mutant) idx starts one past the number of weights of the layers before.
FirstIdxShifted(c, l) == NumWeightsUpTo(c, l - 1) + 1

\* update line 256, idx := i: the goroutine of layer l (numbered from 1)
\* starts at the layer's index.
FirstIdx(c, l) == l - 1

IndexInit ==
    /\ cfg \in IndexConfigs
    /\ nets = [id \in {"n"} |-> NewNet(cfg)]
    /\ wt = [x \in Cells(cfg, {"n"}) |-> 0]
    /\ res = [op |-> "none", used |-> <<>>]
    /\ NoSnapshot
    /\ main = [pc |-> "start", b |-> 0, i |-> 0]
    /\ wk = <<>>
    /\ red = <<>>
    /\ app = [t \in IndexTasks(cfg) |-> [pc |-> "none", s |-> 0, idx |-> 0, tmp |-> 0]]
    /\ tb = [moments |-> <<>>, inits |-> 0, size |-> 0, uch |-> [g \in 1..MaxCalls |-> 0]]

\* Train line 150: t.solver.Init(n.NumWeights()).
IndexTrainStart ==
    /\ main.pc = "start"
    /\ tb' = [tb EXCEPT !.moments = [x \in 0..(NumWeights(cfg) - 1) |-> 0],
                        !.inits = @ + 1, !.size = NumWeights(cfg)]
    /\ main' = [pc |-> "update", b |-> 1, i |-> 0]
    /\ UNCHANGED <<cfg, nets, wt, res, cw, nw, wk, red, app>>

\* update lines 253-280: one apply goroutine per layer.
IndexUpdate ==
    /\ main.pc = "update"
    /\ app' = [t \in IndexTasks(cfg) |->
                 IF t[1] = main.b
                 THEN [pc |-> "update", s |-> 1, idx |-> FirstIdx(cfg, t[2]), tmp |-> 0]
                 ELSE app[t]]
    /\ tb' = [tb EXCEPT !.uch[main.b] = 0]
    /\ main' = [main EXCEPT !.pc = "uwait"]
    /\ UNCHANGED <<cfg, nets, wt, res, cw, nw, wk, red>>

\* update lines 282-284: the first value received ends the wait.
IndexUpdateWait ==
    /\ main.pc = "uwait"
    /\ tb.uch[main.b] > 0
    /\ tb' = [tb EXCEPT !.uch[main.b] = @ - 1]
    /\ main' = IF main.b < MaxCalls
               THEN [pc |-> "update", b |-> main.b + 1, i |-> 0]
               ELSE [main EXCEPT !.pc = "done"]
    /\ UNCHANGED <<cfg, nets, wt, res, cw, nw, wk, red, app>>

\* update lines 263-266: the goroutine enters solver.Update(s.Weight,
\* jAD[k], it, idx), which reads moments[idx] (solver.go line 39) and
\* panics when idx is outside moments.
IndexSolverEnter(t) ==
    /\ app[t].pc = "update"
    /\ res.op # "panic"
    /\ LET s == LayerSlots(cfg, t[2])[app[t].s]
           idx == app[t].idx
           used == [x \in DOMAIN res.used \cup {<<t[1], s[1], s[2], s[3]>>} |->
                      IF x = <<t[1], s[1], s[2], s[3]>> THEN idx ELSE res.used[x]] IN
       IF idx \in DOMAIN tb.moments
       THEN /\ res' = [op |-> "Update", used |-> used]
            /\ app' = [app EXCEPT ![t] = [@ EXCEPT !.pc = "solver", !.tmp = tb.moments[idx]]]
       ELSE /\ res' = [op |-> "panic", used |-> used]
            /\ app' = app
    /\ UNCHANGED <<cfg, nets, wt, cw, nw, main, wk, red, tb>>

\* solver.go lines 39-45 and update lines 268-276: moments[idx] is stored
\* and returned, s.Weight += update, idx++; after the layer's last
\* synapse, ch <- false.
IndexSolverReturn(t) ==
    /\ app[t].pc = "solver"
    /\ LET s == LayerSlots(cfg, t[2])[app[t].s]
           idx == app[t].idx
           last == app[t].s = Len(LayerSlots(cfg, t[2]))
           m == SGDMoment(app[t].tmp, 0) IN
       /\ wt' = [wt EXCEPT ![WCell("n", s[1], s[2], s[3])] = @ + m]
       /\ tb' = [tb EXCEPT !.moments[idx] = m, !.uch[t[1]] = IF last THEN @ + 1 ELSE @]
       /\ app' = [app EXCEPT ![t] = IF last THEN [pc |-> "done", s |-> 0, idx |-> 0, tmp |-> 0]
                                    ELSE [pc |-> "update", s |-> @.s + 1, idx |-> @.idx + 1, tmp |-> 0]]
    /\ UNCHANGED <<cfg, nets, res, cw, nw, main, wk, red>>

IndexNext ==
    \/ IndexTrainStart \/ IndexUpdate \/ IndexUpdateWait
    \/ \E t \in IndexTasks(cfg) : IndexSolverEnter(t) \/ IndexSolverReturn(t)

SpecIndex == IndexInit /\ [][IndexNext]_vars

(***************************************************************************)
(* C15: the flat index update() passes to solver.Update for a weight       *)
(* (layer, neuron, synapse) is the same on every update() call of the      *)
(* run, and differs from the index passed for every other weight of the    *)
(* network.                                                                *)
(***************************************************************************)
C15_FlatIndexUnique ==
    \A x, y \in DOMAIN res.used :
       IF <<x[2], x[3], x[4]>> = <<y[2], y[3], y[4]>>
       THEN res.used[x] = res.used[y]
       ELSE res.used[x] # res.used[y]

(***************************************************************************)
(* C20: solver.Init is called exactly once, with n.NumWeights(), before    *)
(* the first solver.Update, and every index passed to solver.Update        *)
(* satisfies 0 <= idx < NumWeights, so no Update addresses accumulator     *)
(* storage outside the size given to Init.                                 *)
(***************************************************************************)
C20_InitOnceIndexInRange ==
    /\ tb.inits <= 1
    /\ res.used # <<>> => (tb.inits = 1 /\ tb.size = NumWeights(cfg))
    /\ \A x \in DOMAIN res.used :
          /\ 0 <= res.used[x] /\ res.used[x] < NumWeights(cfg)
          /\ res.used[x] \in DOMAIN tb.moments
    /\ res.op # "panic"

\* Every update() call of the run has passed every weight of a two-layer
\* network to solver.Update.
C20_Witness ==
    /\ main.pc = "done"
    /\ NumLayers(cfg) > 1
    /\ \A t \in IndexTasks(cfg) : app[t].pc = "done"
    /\ Cardinality(DOMAIN res.used) = MaxCalls * NumWeights(cfg)

\* The reduction of the current mini-batch has been started (line 171 on)
\* and update() has not yet been called.
ReductionStarted == main.pc \in {"rwait", "update"}

(***************************************************************************)
(* C16: for every mini-batch, each example of the batch is processed by    *)
(* exactly one worker exactly once (forward pass, then calculateDeltas),   *)
(* and the reduction phase does not start until calculateDeltas has        *)
(* completed for every example of that batch.                              *)
(***************************************************************************)
C16_EachExampleOnce ==
    /\ \A e \in 1..Len(TrainExamples) :
          /\ tb.fwd[e] <= 1
          /\ tb.cd[e] <= tb.fwd[e]
          /\ tb.cd[e] < tb.fwd[e] => Cardinality({w \in Workers : wk[w].pc = "deltas" /\ wk[w].e = e}) = 1
    /\ ReductionStarted =>
          /\ \A e \in 1..Len(TrainExamples) : tb.fwd[e] = 1 /\ tb.cd[e] = 1
          /\ \A w \in Workers : wk[w].pc = "recv"

\* In the second mini-batch a reduction goroutine is adding into
\* accumulatedDeltas.
C16_Witness ==
    /\ main.b > 1
    /\ main.pc = "rwait"
    /\ \E w \in Workers : red[w].pc = "write"
    /\ \A e \in 1..Len(TrainExamples) : tb.cd[e] = 1

\* A reduction goroutine has been started and has not yet sent on ch.
ReductionRunning == \E w \in Workers : red[w].pc \in {"read", "write"}

\* The next step of apply goroutine t reads jAD[k] (line 264) or stores
\* jAD[k] = 0 (line 272); neither step waits for anything.
AtAccumulated(t) == app[t].pc \in {"update", "zero"}

\* The reduction of a mini-batch after the one update() call t[1] ended
\* has been started.
NextReductionStarted(t) == main.b > t[1] /\ (main.b > t[1] + 1 \/ main.pc \in {"rwait", "update", "uwait", "done"})

(***************************************************************************)
(* C17: throughout a training run, no apply goroutine of any update()      *)
(* call reads or zeroes a slot of accumulatedDeltas while a reduction      *)
(* goroutine is running, and every read of an apply goroutine happens      *)
(* before the reduction of the next mini-batch starts.                     *)
(***************************************************************************)
C17_ApplyOutsideReduction ==
    \A t \in ApplyTasks :
       /\ AtAccumulated(t) => ~ReductionRunning
       /\ app[t].pc = "update" => ~NextReductionStarted(t)

\* Apply goroutine t is inside s.Weight += update: it holds the mutex of
\* its update() call, has read s.Weight and has not yet stored it.
InWeightWrite(t) == app[t].pc = "write"

(***************************************************************************)
(* C18: at no point of a training run are two apply goroutines inside the  *)
(* weight write (s.Weight += update) on the authoritative network at the   *)
(* same time: all weight writes of the run are serialized by the mutex.    *)
(***************************************************************************)
C18_WritesSerialized ==
    \A t, u \in ApplyTasks : (InWeightWrite(t) /\ InWeightWrite(u)) => t = u

\* Worker w takes a step of its loop (lines 140-145).
WorkerSteps(w) == wk[w].pc \in {"recv", "deltas"} /\ wk'[w] # wk[w]

(***************************************************************************)
(* C19: during the gradient phase, worker w reads and writes only its own  *)
(* replica nets[w], its own delta tensor deltas[w] and its own             *)
(* partial-gradient tensor partialDeltas[w]: no two workers have the same  *)
(* replica, delta tensor or partial-gradient tensor, a step of worker w    *)
(* leaves those of every other worker as they were, and it leaves the      *)
(* authoritative network, every weight and accumulatedDeltas as they were. *)
(***************************************************************************)
C19_WorkerPrivate ==
    [][ \A w \in Workers :
           WorkerSteps(w) =>
              /\ InGradientPhase
              /\ \A v \in Workers \ {w} :
                    /\ WorkerId(v) # WorkerId(w)
                    /\ nets'[Replica(v)] = nets[Replica(v)]
                    /\ tb'.deltas[v] = tb.deltas[v]
                    /\ tb'.pd[v] = tb.pd[v]
              /\ nets'[UpdateTarget] = nets[UpdateTarget]
              /\ wt' = wt
              /\ tb'.ad = tb.ad ]_vars

\* Both workers are between Forward and calculateDeltas, each with its
\* own example, and their replicas hold different forward-pass state.
C19_Witness ==
    /\ \A w \in Workers : wk[w].pc = "deltas"
    /\ wk[1].e # wk[1 + 1].e
    /\ nets[Replica(1)].SIn # nets[Replica(1 + 1)].SIn

(***************************************************************************)
(* C21: for a neuron whose activation memoizes, after a training-mode      *)
(* forward pass that produced output y from summed input x, the next       *)
(* DActivate(y) on that neuron retrieves the memoized x and computes the   *)
(* derivative from it (Custom without a hook returns it); a forward pass   *)
(* with training = false stores no entry.                                  *)
(***************************************************************************)
C21_MemoRetrieved ==
    Memoizes(cfg.Activation[1]) =>
       /\ (res.op = "Activate" /\ ~res.training) => res.mem = <<>>
       /\ (res.op = "DActivate" /\ res.training) => (res.got = res.x /\ res.d = res.x)

\* The indices at which two vectors of one length differ.
Changed(v, u) == {i \in DOMAIN v : v[i] # u[i]}

(***************************************************************************)
(* C22: one FilterNoise call changes at most one element of at most one    *)
(* of the two vectors Shift and Significance (the element at the drawn     *)
(* index) and changes no synapse weight; when the Significance magnitude   *)
(* is 0 only Shift can change, and when the Shift magnitude is 0 only      *)
(* Significance can change.                                                *)
(***************************************************************************)
C22_OneElementChanges ==
    /\ [](res.op = "FilterNoise" =>
            LET shift == Changed(nets["n"].Shift, res.before.Shift)
                signif == Changed(nets["n"].Significance, res.before.Significance) IN
            /\ Cardinality(shift) + Cardinality(signif) <= 1
            /\ shift \cup signif \subseteq {res.rnd.ri}
            /\ res.Significance = 0 => signif = {}
            /\ res.Shift = 0 => shift = {})
    /\ [][res'.op = "FilterNoise" => wt' = wt]_vars

\* A call has lowered the loss and kept its perturbation: one element of
\* one of the two vectors differs from before the call.
C22_Witness ==
    /\ res.op = "FilterNoise"
    /\ res.updAcc < res.acc
    /\ Cardinality(Changed(nets["n"].Shift, res.before.Shift)
                   \cup Changed(nets["n"].Significance, res.before.Significance)) = 1

\* Train has returned: the last update() call of the last iteration has
\* returned and the iteration loop has ended.
TrainReturned == main.pc = "done"

(***************************************************************************)
(* C23: when BatchTrainer.Train returns, every per-layer apply goroutine   *)
(* it started has completed, so no weight of the passed network and no     *)
(* solver accumulator is modified after the return.                        *)
(***************************************************************************)
C23_AppliedAtReturn ==
    TrainReturned => \A t \in ApplyTasks : app[t].pc = "done"

\* Apply goroutine t is inside solver.Update: it has read moments[idx]
\* and has not yet stored it.  Update is called before mut.Lock().
InSolverUpdate(t) == app[t].pc = "solver"

(***************************************************************************)
(* C24: no solver accumulator slot is read or written by two per-layer     *)
(* apply goroutines concurrently: the solver.Update calls that the         *)
(* goroutines of one update() call are inside at the same time address     *)
(* different indices.                                                      *)
(***************************************************************************)
C24_SolverSlotsDisjoint ==
    \A t, u \in IndexTasks(cfg) :
       (t # u /\ t[1] = u[1] /\ InSolverUpdate(t) /\ InSolverUpdate(u)) => app[t].idx # app[u].idx

(***************************************************************************)
(* Train under fair scheduling: every goroutine that can take a step       *)
(* eventually takes one (the Go scheduler runs every runnable goroutine).  *)
(* Train is called with iterations = MaxFairBatches.                       *)
(***************************************************************************)
MaxFairBatches == 1

FairUpdateWait == TrainUpdateWaitOf(MaxFairBatches)

MainStep ==
    \/ TrainStart \/ TrainSnapshot \/ TrainBroadcast \/ TrainDispatch
    \/ TrainReduce \/ TrainReduceWait \/ TrainUpdate \/ FairUpdateWait

WorkerStep(w) == WorkerForward(w) \/ WorkerDeltas(w)

ReduceStep(w) == ReduceRead(w) \/ ReduceWrite(w)

ApplyStep(t) == ApplyUpdate(t) \/ ApplyLock(t) \/ ApplyWrite(t) \/ ApplyZero(t)

TrainFairness ==
    /\ WF_vars(MainStep)
    /\ \A w \in Workers : WF_vars(WorkerStep(w)) /\ WF_vars(ReduceStep(w))
    /\ \A t \in ApplyTasks : WF_vars(ApplyStep(t))

FairNext ==
    \/ MainStep
    \/ \E w \in Workers : WorkerStep(w) \/ ReduceStep(w)
    \/ \E t \in ApplyTasks : ApplyStep(t)

SpecTrainFair == TrainInit /\ [][FairNext]_vars /\ TrainFairness

\* Train is in mini-batch b at the step pc.
TrainAt(b, pc) == main.b = b /\ main.pc = pc

ReplicasBuilt == main.pc \notin {"idle", "start"}

(***************************************************************************)
(* C26: in BatchTrainer.Train every worker replica applies the same input  *)
(* transform as the authoritative network: for each input index i the      *)
(* replica's Shift[i] and Significance[i] equal the authoritative          *)
(* network's, so a replica's forward pass with the broadcast weights       *)
(* yields the values the authoritative network would.                      *)
(***************************************************************************)
C26_ReplicaTransform ==
    ReplicasBuilt =>
       \A w \in Workers :
          /\ nets[Replica(w)].Shift = nets[UpdateTarget].Shift
          /\ nets[Replica(w)].Significance = nets[UpdateTarget].Significance
          /\ wk[w].pc = "deltas" =>
                nets[Replica(w)].Value =
                   Forward(cfg, nets[UpdateTarget], LoadW(cfg, wt, Replica(w)),
                           TrainExamples[wk[w].e].Input, TRUE).Value

(***************************************************************************)
(* C27: Predict called with len(input) # Config.Inputs surfaces no error   *)
(* to the caller: it leaves the network state and the weights unchanged    *)
(* and returns the output-layer neuron values left by the previous         *)
(* forward pass (zeros if none has run).  Predict has one result, the      *)
(* slice res.out.                                                          *)
(***************************************************************************)
C27_PredictWrongLength ==
    [][ (res'.op = "Predict" /\ Len(res'.input) # cfg.Inputs) =>
          /\ DOMAIN res' = {"op", "input", "out"}
          /\ nets' = nets
          /\ wt' = wt
          /\ res'.out = nets["n"].Value[NumLayers(cfg)]
          /\ nets["n"] = NewNet(cfg) => \A i \in DOMAIN res'.out : res'.out[i] = 0 ]_vars

\* Predict has been given an input that is too short on a network whose
\* last forward pass left a non-zero output value, and has returned it.
C27_Witness ==
    /\ res.op = "Predict"
    /\ Len(res.input) < cfg.Inputs
    /\ \E i \in DOMAIN res.out : res.out[i] # 0

(***************************************************************************)
(* C28: FilterNoise called with both the Significance and the Shift        *)
(* magnitude equal to 0 returns -1, evaluates no loss, consumes no random  *)
(* number (the outcome is the same for every draw) and leaves the          *)
(* network's Shift, Significance, weights and transient forward-pass       *)
(* state unchanged.                                                        *)
(***************************************************************************)
C28_ZeroMagnitudes ==
    [][ (res'.op = "FilterNoise" /\ res'.Significance = 0 /\ res'.Shift = 0) =>
          /\ res'.ret = 0 - 1
          /\ res'.acc = 0 - 1 /\ res'.updAcc = 0 - 1
          /\ nets' = nets
          /\ wt' = wt
          /\ \A rnd \in RandomDraws(cfg) :
                LET r == FilterNoise(cfg, nets["n"], LoadW(cfg, wt, "n"), NoiseExamples, 0, 0, rnd) IN
                r.ret = 0 - 1 /\ r.net = nets["n"] ]_vars

\* A call with both magnitudes 0 has returned -1 on a network that an
\* earlier call had tuned and left with the state of a forward pass.
C28_Witness ==
    /\ res.op = "FilterNoise"
    /\ res.Significance = 0 /\ res.Shift = 0
    /\ res.ret = 0 - 1
    /\ nets["n"] # NewNet(cfg)
    /\ nets["n"].Shift # NewNet(cfg).Shift \/ nets["n"].Significance # NewNet(cfg).Significance
    /\ nets["n"].Value # NewNet(cfg).Value

=============================================================================
